---------------------------- MODULE Spec2Model ----------------------------
(***************************************************************************)
(* Model of the neocities crate: the API client (src/src/lib.rs) and the   *)
(* command-line front end (src/examples/neocities-cli.rs).                  *)
(*                                                                         *)
(* Two specifications are given.                                            *)
(*   SpecClient  one client, calling the five operations against a server  *)
(*               that may answer anything: the envelope decoding.           *)
(*   Spec        one run of the command-line program, from argument        *)
(*               parsing to process exit.                                   *)
(***************************************************************************)
EXTENDS Integers, Sequences, FiniteSets, TLC

(***************************************************************************)
(* Bounds of the model.                                                    *)
(***************************************************************************)
\* fields a response body carries besides `result`
MaxFields == 2
\* entries of a remote listing
MaxList == 3
\* entries of a local directory tree below its root
MaxTree == 3

None == "<none>"

(***************************************************************************)
(* lib.rs: credentials and the Authorization header.                       *)
(***************************************************************************)
\* enum Auth
LoginAuth(username, password) ==
    [kind |-> "Login", username |-> username, password |-> password, key |-> None]

KeyAuth(key) ==
    [kind |-> "Key", username |-> None, password |-> None, key |-> key]

\* the header basic_auth / bearer_auth put on a request
BasicHeader(username, password) ==
    [scheme |-> "Basic", username |-> username, password |-> password, token |-> None]

BearerHeader(key) ==
    [scheme |-> "Bearer", username |-> None, password |-> None, token |-> key]

add_authorization_header_bearer_only(auth) ==
    IF auth.kind = "Login" THEN BearerHeader(auth.username) ELSE BearerHeader(auth.key)

add_authorization_header(auth) ==
    IF auth.kind = "Login"
    THEN BasicHeader(auth.username, auth.password)
    ELSE BearerHeader(auth.key)

\* Neocities::new
New(key) == [auth |-> KeyAuth(key)]

\* Neocities::login
Login(username, password) == [auth |-> LoginAuth(username, password)]

(***************************************************************************)
(* lib.rs: results of an operation.                                        *)
(***************************************************************************)
Ok(data) == [kind |-> "Ok", data |-> data]

\* NeocitiesError::ApiErr
ApiErr(error_type, message) ==
    [kind |-> "ApiErr", error_type |-> error_type, message |-> message]

\* NeocitiesError::ReqwestErr: every failure of the transport, of the status
\* check and of the decoding
ReqwestErr == [kind |-> "ReqwestErr"]

\* Display of NeocitiesError (e.to_string())
ErrorToString(e) ==
    IF e.kind = "ApiErr"
    THEN <<"API returned error", e.error_type, "with message", e.message>>
    ELSE <<"reqwest error">>

(***************************************************************************)
(* JSON values of a response body.  A value is a string, an array of       *)
(* listing objects, or an object holding a site's info.                    *)
(***************************************************************************)
JStr(s) == [t |-> "string", s |-> s, a |-> <<>>]
JArr(a) == [t |-> "array", s |-> "", a |-> a]
JInfo(s) == [t |-> "info", s |-> s, a |-> <<>>]

\* a listing object on the wire: its path and which of the other keys it has
WireEntry(path, keys) == [path |-> path, keys |-> keys]

WireFile(path) == WireEntry(path, {"size", "updated_at", "sha1_hash"})
WireDirectory(path) == WireEntry(path, {"updated_at"})

\* enum ListEntry
File(path) == [kind |-> "File", path |-> path]
Directory(path) == [kind |-> "Directory", path |-> path]

\* #[serde(untagged)] ListEntry: the first variant all of whose fields are
\* present; keys a variant does not name are ignored
IsListEntry(w) == "updated_at" \in w.keys

DecodeListEntry(w) ==
    IF {"size", "updated_at", "sha1_hash"} \subseteq w.keys
    THEN File(w.path)
    ELSE Directory(w.path)

\* the three payload types T of ApiResult<T>
DecodableAs(T, v) ==
    CASE T = "String" -> v.t = "string"
      [] T = "Vec<ListEntry>" ->
            v.t = "array" /\ \A i \in 1..Len(v.a) : IsListEntry(v.a[i])
      [] T = "Info" -> v.t = "info"

DecodeAs(T, v) ==
    CASE T = "String" -> v.s
      [] T = "Vec<ListEntry>" -> [i \in 1..Len(v.a) |-> DecodeListEntry(v.a[i])]
      [] T = "Info" -> [site_name |-> v.s]

(***************************************************************************)
(* lib.rs: enum ApiResult<T>, #[serde(tag = "result")].                    *)
(* A body is Malformed (not a JSON object) or a record of its `result`     *)
(* tag (None when the key is absent) and its other fields.                 *)
(***************************************************************************)
Malformed == [result |-> "<malformed>", fields |-> <<>>]

Has(body, key) == key \in DOMAIN body.fields

\* the names the field `data` of ApiResult::Success is read from
PayloadNamesNoApiKey == {"data", "info", "files", "message"}

PayloadNames == {"data", "info", "files", "api_key", "message"}

\* #[serde(default)] String field of ApiResult::Error
DefaultStringNoDefault(body, key) ==
    IF Has(body, key) THEN body.fields[key].s ELSE "<missing field>"

DefaultString(body, key) ==
    IF Has(body, key) THEN body.fields[key].s ELSE ""

ErrorDecodable(body) ==
    \A key \in {"error_type", "message"} :
        Has(body, key) => body.fields[key].t = "string"

Carriers(body) == {key \in PayloadNames : Has(body, key)}

\* exactly one of the names carries the payload (two are a duplicate field,
\* none is a missing field), and it decodes as T
SuccessDecodable(T, body) ==
    /\ Cardinality(Carriers(body)) = 1
    /\ \A key \in Carriers(body) : DecodableAs(T, body.fields[key])

SuccessData(T, body) ==
    DecodeAs(T, body.fields[CHOOSE key \in Carriers(body) : TRUE])

\* response.json::<ApiResult<T>>() followed by to_result()
JsonToResultUntagged(T, body) ==
    IF body = Malformed THEN ReqwestErr
    ELSE IF body.result = "error" /\ ErrorDecodable(body)
    THEN ApiErr(DefaultString(body, "error_type"), DefaultString(body, "message"))
    ELSE IF body.result # "error" /\ SuccessDecodable(T, body)
    THEN Ok(SuccessData(T, body))
    ELSE ReqwestErr

JsonToResult(T, body) ==
    IF body = Malformed THEN ReqwestErr
    ELSE IF body.result = "error" /\ ErrorDecodable(body)
    THEN ApiErr(DefaultString(body, "error_type"), DefaultString(body, "message"))
    ELSE IF body.result = "success" /\ SuccessDecodable(T, body)
    THEN Ok(SuccessData(T, body))
    ELSE ReqwestErr

(***************************************************************************)
(* lib.rs: the five operations.  A request is what the operation builds;   *)
(* a response is what send() brings back: sent is FALSE when the request   *)
(* could not be completed at all.                                          *)
(***************************************************************************)
Request(method, endpoint, client, params) ==
    [method |-> method, endpoint |-> endpoint,
     authorization |-> add_authorization_header(client.auth), params |-> params]

\* list: the form field `path` is attached unless the path is empty
ListRequest(client, path) ==
    Request("GET", "list", client, IF path = "" THEN <<>> ELSE <<<<"path", path>>>>)

\* info: the form field `sitename` is attached unless the name is empty
InfoRequest(client, site_name) ==
    Request("GET", "info", client,
            IF site_name = "" THEN <<>> ELSE <<<<"sitename", site_name>>>>)

KeyRequest(client) == Request("GET", "key", client, <<>>)

\* upload: one multipart part, named file_path, with file name file_path
UploadRequest(client, file_path) ==
    Request("POST", "upload", client, <<<<file_path, file_path>>>>)

\* delete: one query parameter filenames[] per path
DeleteRequest(client, file_paths) ==
    Request("POST", "delete", client,
            [k \in 1..Len(file_paths) |-> <<"filenames[]", file_paths[k]>>])

\* Response::error_for_status: a client or a server error status
IsErrorStatus(status) == status >= 400 /\ status <= 599

\* send().await?.error_for_status()? then json().await?.to_result()
CheckedResult(T, resp) ==
    IF ~resp.sent THEN ReqwestErr
    ELSE IF IsErrorStatus(resp.status) THEN ReqwestErr
    ELSE JsonToResult(T, resp.body)

\* send().await? then json().await?.to_result(): the status is not looked at
UncheckedResult(T, resp) ==
    IF ~resp.sent THEN ReqwestErr ELSE JsonToResult(T, resp.body)

ListResult(resp) == CheckedResult("Vec<ListEntry>", resp)
InfoResult(resp) == CheckedResult("Info", resp)
KeyResult(resp) == CheckedResult("String", resp)
UploadResult(resp) == UncheckedResult("String", resp)
DeleteResult(resp) == UncheckedResult("String", resp)

\* the payload type each operation decodes
PayloadType(op) ==
    CASE op = "list" -> "Vec<ListEntry>"
      [] op = "info" -> "Info"
      [] op \in {"key", "upload", "delete"} -> "String"

(***************************************************************************)
(* The server, as the client sees it: any status, any body.                *)
(***************************************************************************)
Statuses == {200, 404, 500}

ResultTags == {None, "success", "error", "bogus"}

FieldKeys == {"error_type", "message", "info", "files", "api_key", "data", "other"}

FieldValues ==
    {JStr("invalid_auth"), JStr("Invalid login"), JInfo("mysite"),
     JArr(<<WireFile("index.html"), WireDirectory("sub")>>),
     JArr(<<WireEntry("x", {"size"})>>)}

FieldMaps ==
    UNION {[D -> FieldValues] :
             D \in {S \in SUBSET FieldKeys : Cardinality(S) <= MaxFields}}

Bodies ==
    {Malformed} \cup {[result |-> r, fields |-> f] : r \in ResultTags, f \in FieldMaps}

NotSent == [sent |-> FALSE, status |-> 0, body |-> Malformed]

Responses ==
    {NotSent} \cup {[sent |-> TRUE, status |-> s, body |-> b] : s \in Statuses, b \in Bodies}

Clients == {New("key1"), Login("user1", "pw1")}

\* the replies of a server that speaks the protocol of `op`, `payloads` being
\* what it may answer on success; the request may also fail to be sent
SuccessName(op) ==
    CASE op = "list" -> "files"
      [] op = "info" -> "info"
      [] op = "key" -> "api_key"
      [] op \in {"upload", "delete"} -> "message"

SuccessEnvelope(op, payload) ==
    [result |-> "success", fields |-> [k \in {SuccessName(op)} |-> payload]]

ErrorEnvelope ==
    [result |-> "error",
     fields |-> [k \in {"error_type", "message"} |->
                    IF k = "error_type" THEN JStr("invalid_auth") ELSE JStr("Invalid login")]]

Reply(status, body) == [sent |-> TRUE, status |-> status, body |-> body]

ServerReplies(op, payloads) ==
    {NotSent, Reply(500, Malformed), Reply(200, ErrorEnvelope), Reply(404, ErrorEnvelope)}
        \cup {Reply(200, SuccessEnvelope(op, payload)) : payload \in payloads}

(***************************************************************************)
(* neocities-cli.rs: local paths.  A local path below the root is the      *)
(* sequence of its components, a component and a path string a sequence of *)
(* characters.                                                             *)
(***************************************************************************)
Hosts == {"unix", "windows"}

\* std::path::MAIN_SEPARATOR
Separator(h) == IF h = "unix" THEN "/" ELSE "\\"

\* the names a directory entry may have: a backslash is an ordinary character
\* of a unix file name, and no character of a windows one
ComponentNames(h) ==
    IF h = "unix"
    THEN {<<"a">>, <<"s">>, <<"a", "\\", "b">>}
    ELSE {<<"a">>, <<"s">>}

RECURSIVE Join(_, _)
Join(components, sep) ==
    IF components = <<>> THEN <<>>
    ELSE IF Len(components) = 1 THEN Head(components)
    ELSE Head(components) \o <<sep>> \o Join(Tail(components), sep)

\* path.strip_prefix(&root).to_string_lossy().to_string()
RelativeString(components, h) == Join(components, Separator(h))

\* str::replace on single characters
Replace(str, from, to) ==
    [k \in 1..Len(str) |-> IF str[k] = from THEN to ELSE str[k]]

\* the remote path upload-all gives a walked entry
NeocitiesPath(components, h) == Replace(RelativeString(components, h), "\\", "/")

(***************************************************************************)
(* WalkDir: the items the iterator yields, the root first, every directory *)
(* before its contents, the contents of a directory in any order.          *)
(***************************************************************************)
WalkError == [ok |-> FALSE, rel |-> <<>>, is_dir |-> FALSE, readable |-> FALSE]

WalkEntry(rel, is_dir, readable) ==
    [ok |-> TRUE, rel |-> rel, is_dir |-> is_dir, readable |-> readable]

RootEntry == WalkEntry(<<>>, TRUE, FALSE)

IsPrefix(p, q) == Len(p) <= Len(q) /\ \A k \in 1..Len(p) : p[k] = q[k]

\* the directories still being read after `walked`: the last entry's
\* ancestors, and the last entry itself when it is a directory
OpenDirectories(walked) ==
    {walked[k].rel : k \in {j \in 1..Len(walked) :
        /\ walked[j].is_dir
        /\ IsPrefix(walked[j].rel, walked[Len(walked)].rel)}}

\* what the iterator may yield next: an entry, not yet walked, of a directory
\* still being read; `readable` says whether a file can be opened and read
NextEntries(walked, h) ==
    IF walked = <<>> THEN {RootEntry}
    ELSE LET seen == {walked[k].rel : k \in 1..Len(walked)}
             fresh == {Append(dir, name) :
                          dir \in OpenDirectories(walked), name \in ComponentNames(h)} \ seen
         IN  {WalkEntry(rel, TRUE, FALSE) : rel \in fresh}
                \cup {WalkEntry(rel, FALSE, r) : rel \in fresh, r \in BOOLEAN}

(***************************************************************************)
(* neocities-cli.rs: the command line.                                     *)
(***************************************************************************)
Subcommand(cmd, name, paths) == [cmd |-> cmd, name |-> name, paths |-> paths]

Subcommands ==
    {Subcommand("Info", "mysite", <<>>),
     Subcommand("List", None, <<>>), Subcommand("List", "sub", <<>>),
     Subcommand("Key", None, <<>>),
     Subcommand("Delete", None, <<"a.txt", "sub">>),
     Subcommand("DeleteAll", None, <<>>),
     Subcommand("Upload", None, <<"a.txt">>), Subcommand("Upload", "b/c.txt", <<"a.txt">>),
     Subcommand("Upload", None, <<"..">>),
     Subcommand("UploadAll", None, <<>>)}

\* struct Cli: --key (or NEOCITIES_KEY), --username, --password
CommandLines ==
    [key : {None, "key1"}, username : {None, "user1"}, password : {None, "pw1"},
     subcommand : Subcommands]

NoAuth == [kind |-> "None", username |-> None, password |-> None, key |-> None]

NoClient == [auth |-> NoAuth]

\* the client run() constructs, NoClient when it constructs none
SelectCredentialKeyFirst(args) ==
    IF args.key # None THEN New(args.key)
    ELSE IF args.username # None /\ args.password # None
    THEN Login(args.username, args.password)
    ELSE NoClient

SelectCredential(args) ==
    IF args.username # None /\ args.password # None
    THEN Login(args.username, args.password)
    ELSE IF args.key # None THEN New(args.key)
    ELSE NoClient

\* the remote listings a server may hold
ListPaths == {"index.html", "other.txt", "sub"}

WireEntries == {WireFile(p) : p \in ListPaths} \cup {WireDirectory(p) : p \in ListPaths}

WireListings == UNION {[1..n -> WireEntries] : n \in 0..MaxList}

ListPayloads == {JArr(l) : l \in WireListings}

\* delete-all skips this file
SkipsFileNever(path) == FALSE

SkipsFile(path) == path = "index.html"

IsErr(res) == res.kind # "Ok"

\* what delete-all does with the result of one delete call: the line it prints,
\* and whether it gives up
FileDeleteOutcomeAborting(res, path) ==
    [lines |-> <<>>, abort |-> IsErr(res)]

FileDeleteOutcome(res, path) ==
    [lines |-> IF IsErr(res) THEN <<<<"Failed to delete", path>>>> ELSE <<>>,
     abort |-> FALSE]

DirectoryDeleteOutcome(res, path) == [lines |-> <<>>, abort |-> FALSE]

NoError == <<>>

\* the body of upload-all's loop for one item: whether it calls upload, and
\* the error `?` returns from run(), `res` being the result of the upload
UploadAllOutcomeIgnoringUpload(item, res) ==
    IF ~item.ok THEN [upload |-> FALSE, err |-> <<"walkdir error">>]
    ELSE IF item.is_dir THEN [upload |-> FALSE, err |-> NoError]
    ELSE IF ~item.readable THEN [upload |-> FALSE, err |-> <<"io error">>]
    ELSE [upload |-> TRUE, err |-> NoError]

UploadAllOutcome(item, res) ==
    IF ~item.ok THEN [upload |-> FALSE, err |-> <<"walkdir error">>]
    ELSE IF item.is_dir THEN [upload |-> FALSE, err |-> NoError]
    ELSE IF ~item.readable THEN [upload |-> FALSE, err |-> <<"io error">>]
    ELSE [upload |-> TRUE, err |-> IF IsErr(res) THEN ErrorToString(res) ELSE NoError]

(***************************************************************************)
(* State.                                                                  *)
(***************************************************************************)
VARIABLES
    cli,        \* the parsed command line
    host,       \* the platform the program runs on: None until upload-all,
                \* the one command it matters to, starts its walk
    api,        \* the client: NoClient before it is constructed
    pc,         \* where run() stands
    requests,   \* the requests issued so far, in order
    results,    \* the kind of the result of each of them
    stdout,     \* the lines printed so far
    exitCode,   \* -1 while the process runs
    list,       \* delete-all: the listing the list call returned
    idx,        \* delete-all: the entry the running pass is at
    walk,       \* upload-all: the items WalkDir yielded so far
    call        \* SpecClient: the last operation, its request, response and result

vars == <<cli, host, api, pc, requests, results, stdout, exitCode, list, idx, walk, call>>

cliVars == <<cli, host, pc, requests, results, stdout, exitCode, list, idx, walk>>

NoCall == [op |-> None, request |-> None, resp |-> NotSent, result |-> ReqwestErr]

Call(op, request, resp, result) ==
    [op |-> op, request |-> request, resp |-> resp, result |-> result]

(***************************************************************************)
(* SpecClient: the library alone.                                          *)
(***************************************************************************)
ClientInit ==
    /\ api \in Clients
    /\ call = NoCall
    /\ cli = [key |-> None, username |-> None, password |-> None,
              subcommand |-> Subcommand(None, None, <<>>)]
    /\ host = None
    /\ pc = "library"
    /\ requests = <<>>
    /\ results = <<>>
    /\ stdout = <<>>
    /\ exitCode = -1
    /\ list = <<>>
    /\ idx = 0
    /\ walk = <<>>

ClientList ==
    /\ pc = "library" /\ call.op = None
    /\ \E path \in {"", "sub"}, resp \in Responses :
            call' = Call("list", ListRequest(api, path), resp, ListResult(resp))
    /\ UNCHANGED <<api, cliVars>>

ClientInfo ==
    /\ pc = "library" /\ call.op = None
    /\ \E site_name \in {"", "mysite"}, resp \in Responses :
            call' = Call("info", InfoRequest(api, site_name), resp, InfoResult(resp))
    /\ UNCHANGED <<api, cliVars>>

ClientKey ==
    /\ pc = "library" /\ call.op = None
    /\ \E resp \in Responses :
            call' = Call("key", KeyRequest(api), resp, KeyResult(resp))
    /\ UNCHANGED <<api, cliVars>>

ClientUpload ==
    /\ pc = "library" /\ call.op = None
    /\ \E resp \in Responses :
            call' = Call("upload", UploadRequest(api, "a.txt"), resp, UploadResult(resp))
    /\ UNCHANGED <<api, cliVars>>

ClientDelete ==
    /\ pc = "library" /\ call.op = None
    /\ \E file_paths \in {<<"a.txt">>, <<"a.txt", "sub">>}, resp \in Responses :
            call' = Call("delete", DeleteRequest(api, file_paths), resp, DeleteResult(resp))
    /\ UNCHANGED <<api, cliVars>>

\* the caller takes the result; the client keeps nothing of the call
ClientReturn ==
    /\ pc = "library" /\ call.op # None
    /\ call' = NoCall
    /\ UNCHANGED <<api, cliVars>>

ClientNext ==
    \/ ClientList
    \/ ClientInfo
    \/ ClientKey
    \/ ClientUpload
    \/ ClientDelete
    \/ ClientReturn

SpecClient == ClientInit /\ [][ClientNext]_vars

(***************************************************************************)
(* Spec: one run of the command-line program.                              *)
(***************************************************************************)
Init ==
    /\ cli \in CommandLines
    /\ host = None
    /\ api = NoClient
    /\ pc = "start"
    /\ requests = <<>>
    /\ results = <<>>
    /\ stdout = <<>>
    /\ exitCode = -1
    /\ list = <<>>
    /\ idx = 0
    /\ walk = <<>>
    /\ call = NoCall

\* run() returns and main() ends the process: Err(e) prints `error: e` and
\* exits with code 1
Return(lines, err) ==
    /\ pc' = "exited"
    /\ stdout' = stdout \o lines \o (IF err = NoError THEN <<>> ELSE <<<<"error:", err>>>>)
    /\ exitCode' = IF err = NoError THEN 0 ELSE 1

\* one API call: the request goes out and its result comes back
Issue(request, res) ==
    /\ requests' = Append(requests, request)
    /\ results' = Append(results, res.kind)

\* run(): the choice of the credential
RunSelectCredential ==
    /\ pc = "start"
    /\ api' = SelectCredential(cli)
    /\ IF api' = NoClient
       THEN Return(<<>>, <<"No login specified!">>)
       ELSE pc' = "dispatch" /\ UNCHANGED <<stdout, exitCode>>
    /\ UNCHANGED <<cli, host, requests, results, list, idx, walk, call>>

\* ApiCmd::Info
CmdInfo ==
    /\ pc = "dispatch" /\ cli.subcommand.cmd = "Info"
    /\ \E resp \in ServerReplies("info", {JInfo("mysite")}) :
          LET res == InfoResult(resp) IN
            /\ Issue(InfoRequest(api, cli.subcommand.name), res)
            /\ IF IsErr(res)
               THEN Return(<<>>, ErrorToString(res))
               ELSE Return(<<<<"Site info for", res.data.site_name>>, <<"Custom Domain:">>,
                             <<"Created at:">>, <<"Last updated:">>, <<"Views:">>,
                             <<"Tags:">>>>, NoError)
    /\ UNCHANGED <<cli, host, api, list, idx, walk, call>>

\* the lines ApiCmd::List prints: four for every File, none for a Directory
RECURSIVE ListLines(_)
ListLines(files) ==
    IF files = <<>> THEN <<>>
    ELSE (IF Head(files).kind = "File"
          THEN <<<<"File:", Head(files).path>>, <<"Size:">>, <<"Updated at:">>, <<"SHA-1:">>>>
          ELSE <<>>) \o ListLines(Tail(files))

\* ApiCmd::List
CmdList ==
    /\ pc = "dispatch" /\ cli.subcommand.cmd = "List"
    /\ \E resp \in ServerReplies("list", ListPayloads) :
          LET directory == cli.subcommand.name
              res == ListResult(resp) IN
            /\ Issue(ListRequest(api, IF directory = None THEN "" ELSE directory), res)
            /\ IF IsErr(res)
               THEN Return(<<>>, ErrorToString(res))
               ELSE Return(ListLines(res.data), NoError)
    /\ UNCHANGED <<cli, host, api, list, idx, walk, call>>

\* ApiCmd::Key
CmdKey ==
    /\ pc = "dispatch" /\ cli.subcommand.cmd = "Key"
    /\ \E resp \in ServerReplies("key", {JStr("key2")}) :
          LET res == KeyResult(resp) IN
            /\ Issue(KeyRequest(api), res)
            /\ IF IsErr(res)
               THEN Return(<<>>, ErrorToString(res))
               ELSE Return(<<<<"Neocities Key:", res.data>>>>, NoError)
    /\ UNCHANGED <<cli, host, api, list, idx, walk, call>>

\* ApiCmd::Delete
CmdDelete ==
    /\ pc = "dispatch" /\ cli.subcommand.cmd = "Delete"
    /\ \E resp \in ServerReplies("delete", {JStr("deleted")}) :
          LET res == DeleteResult(resp) IN
            /\ Issue(DeleteRequest(api, cli.subcommand.paths), res)
            /\ IF IsErr(res)
               THEN Return(<<>>, ErrorToString(res))
               ELSE Return(<<<<res.data>>>>, NoError)
    /\ UNCHANGED <<cli, host, api, list, idx, walk, call>>

\* ApiCmd::Upload: file_path is a file or not, and can be read or not
CmdUpload ==
    /\ pc = "dispatch" /\ cli.subcommand.cmd = "Upload"
    /\ LET file_path == cli.subcommand.paths[1]
           custom_path == cli.subcommand.name
           file_name == IF file_path = ".." THEN ".." ELSE file_path
       IN \E is_file \in (IF file_path = ".." THEN {FALSE} ELSE BOOLEAN),
             readable \in BOOLEAN,
             resp \in ServerReplies("upload", {JStr("uploaded")}) :
            IF ~is_file
            THEN /\ Return(<<>>, <<"File either does not exist or is a directory">>)
                 /\ UNCHANGED <<requests, results>>
            ELSE IF ~readable
            THEN /\ Return(<<>>, <<"io error">>)
                 /\ UNCHANGED <<requests, results>>
            ELSE LET res == UploadResult(resp) IN
                 /\ Issue(UploadRequest(api, IF custom_path = None THEN file_name
                                             ELSE custom_path), res)
                 /\ Return(<<>>, IF IsErr(res) THEN ErrorToString(res) ELSE NoError)
    /\ UNCHANGED <<cli, host, api, list, idx, walk, call>>

\* ApiCmd::DeleteAll: the list call
DeleteAllList ==
    /\ pc = "dispatch" /\ cli.subcommand.cmd = "DeleteAll"
    /\ \E resp \in ServerReplies("list", ListPayloads) :
          LET res == ListResult(resp) IN
            /\ Issue(ListRequest(api, ""), res)
            /\ IF IsErr(res)
               THEN Return(<<>>, ErrorToString(res)) /\ UNCHANGED <<list, idx>>
               ELSE /\ list' = res.data
                    /\ idx' = 1
                    /\ pc' = "delete_files"
                    /\ UNCHANGED <<stdout, exitCode>>
    /\ UNCHANGED <<cli, host, api, walk, call>>

\* ApiCmd::DeleteAll: the first loop, at one entry of the listing
DeleteAllFile ==
    /\ pc = "delete_files" /\ idx <= Len(list)
    /\ LET entry == list[idx] IN
         IF entry.kind # "File" \/ SkipsFile(entry.path)
         THEN /\ idx' = idx + 1
              /\ UNCHANGED <<pc, requests, results, stdout, exitCode>>
         ELSE \E resp \in ServerReplies("delete", {JStr("deleted")}) :
                LET res == DeleteResult(resp)
                    outcome == FileDeleteOutcome(res, entry.path) IN
                  /\ Issue(DeleteRequest(api, <<entry.path>>), res)
                  /\ IF outcome.abort
                     THEN Return(outcome.lines, ErrorToString(res)) /\ UNCHANGED idx
                     ELSE /\ stdout' = stdout \o outcome.lines
                          /\ idx' = idx + 1
                          /\ UNCHANGED <<pc, exitCode>>
    /\ UNCHANGED <<cli, host, api, list, walk, call>>

\* ApiCmd::DeleteAll: the first loop ends and the second starts
DeleteAllFilesDone ==
    /\ pc = "delete_files" /\ idx > Len(list)
    /\ pc' = "delete_directories"
    /\ idx' = 1
    /\ UNCHANGED <<cli, host, api, requests, results, stdout, exitCode, list, walk, call>>

\* ApiCmd::DeleteAll: the second loop, at one entry of the listing
DeleteAllDirectory ==
    /\ pc = "delete_directories" /\ idx <= Len(list)
    /\ LET entry == list[idx] IN
         IF entry.kind # "Directory"
         THEN /\ idx' = idx + 1
              /\ UNCHANGED <<pc, requests, results, stdout, exitCode>>
         ELSE \E resp \in ServerReplies("delete", {JStr("deleted")}) :
                LET res == DeleteResult(resp)
                    outcome == DirectoryDeleteOutcome(res, entry.path) IN
                  /\ Issue(DeleteRequest(api, <<entry.path>>), res)
                  /\ IF outcome.abort
                     THEN Return(outcome.lines, ErrorToString(res)) /\ UNCHANGED idx
                     ELSE /\ stdout' = stdout \o outcome.lines
                          /\ idx' = idx + 1
                          /\ UNCHANGED <<pc, exitCode>>
    /\ UNCHANGED <<cli, host, api, list, walk, call>>

\* ApiCmd::DeleteAll: the second loop ends and run() returns Ok(())
DeleteAllDone ==
    /\ pc = "delete_directories" /\ idx > Len(list)
    /\ Return(<<>>, NoError)
    /\ UNCHANGED <<cli, host, api, requests, results, list, idx, walk, call>>

\* ApiCmd::UploadAll: WalkDir::new(&root)
UploadAllStart ==
    /\ pc = "dispatch" /\ cli.subcommand.cmd = "UploadAll"
    /\ pc' = "walk"
    /\ host' \in Hosts
    /\ UNCHANGED <<cli, api, requests, results, stdout, exitCode, list, idx, walk, call>>

\* ApiCmd::UploadAll: the iterator yields an item and the loop body runs on it
UploadAllEntry ==
    /\ pc = "walk" /\ Len(walk) <= MaxTree
    /\ \E item \in NextEntries(walk, host) \cup {WalkError},
          resp \in ServerReplies("upload", {JStr("uploaded")}) :
          LET res == UploadResult(resp)
              outcome == UploadAllOutcome(item, res) IN
            /\ walk' = Append(walk, item)
            /\ IF outcome.upload
               THEN Issue(UploadRequest(api, NeocitiesPath(item.rel, host)), res)
               ELSE UNCHANGED <<requests, results>>
            /\ IF outcome.err # NoError
               THEN Return(<<>>, outcome.err)
               ELSE UNCHANGED <<pc, stdout, exitCode>>
    /\ UNCHANGED <<cli, host, api, list, idx, call>>

\* ApiCmd::UploadAll: the iterator is exhausted and run() returns Ok(())
UploadAllDone ==
    /\ pc = "walk" /\ walk # <<>>
    /\ Return(<<>>, NoError)
    /\ UNCHANGED <<cli, host, api, requests, results, list, idx, walk, call>>

Next ==
    \/ RunSelectCredential
    \/ CmdInfo
    \/ CmdList
    \/ CmdKey
    \/ CmdDelete
    \/ CmdUpload
    \/ DeleteAllList
    \/ DeleteAllFile
    \/ DeleteAllFilesDone
    \/ DeleteAllDirectory
    \/ DeleteAllDone
    \/ UploadAllStart
    \/ UploadAllEntry
    \/ UploadAllDone

Spec == Init /\ [][Next]_vars

(***************************************************************************)
(* Properties of delete-all.                                               *)
(***************************************************************************)
DeleteAllListed ==
    /\ cli.subcommand.cmd = "DeleteAll"
    /\ results # <<>>
    /\ results[1] = "Ok"

IsRemovableFile(entry) == entry.kind = "File" /\ entry.path # "index.html"

IsDirectory(entry) == entry.kind = "Directory"

DeletesOf(entries) ==
    [k \in 1..Len(entries) |-> DeleteRequest(api, <<entries[k].path>>)]

\* the request sequence of a whole sweep over `listing`
SweepOf(listing) ==
    <<ListRequest(api, "")>>
        \o DeletesOf(SelectSeq(listing, IsRemovableFile))
        \o DeletesOf(SelectSeq(listing, IsDirectory))

IsDeleteOf(request, path) ==
    request.endpoint = "delete" /\ request.params = <<<<"filenames[]", path>>>>

\* C1 (as amended): once the list call of delete-all has returned a listing,
\* the requests issued are at every moment a prefix of, and at exit exactly:
\* the list call, one single-path delete per listed File whose path is not
\* "index.html" in listing order, then one single-path delete per listed
\* Directory in listing order.  A delete call for the path "index.html" is
\* issued only for a listed Directory of that path, never for a File.
C1_DeleteAllSequence ==
    DeleteAllListed =>
        /\ IsPrefix(requests, SweepOf(list))
        /\ pc = "exited" => requests = SweepOf(list)
        /\ \A k \in 1..Len(requests) :
              IsDeleteOf(requests[k], "index.html") =>
                  \E j \in 1..Len(list) : list[j] = Directory("index.html")

\* C1 witness: the listing index.html, other.txt, sub (a directory) has been
\* swept: exactly the list call and the deletes of other.txt and sub went out
C1_Witness ==
    /\ DeleteAllListed
    /\ pc = "exited"
    /\ list = <<File("index.html"), File("other.txt"), Directory("sub")>>
    /\ Len(requests) = 3
    /\ IsDeleteOf(requests[2], "other.txt")
    /\ IsDeleteOf(requests[3], "sub")

\* C1 as stated: the same sequence, and no delete call at all for the path
\* "index.html"
C1_NoDeleteOfIndexHtml ==
    DeleteAllListed =>
        /\ IsPrefix(requests, SweepOf(list))
        /\ pc = "exited" => requests = SweepOf(list)
        /\ \A k \in 1..Len(requests) : ~IsDeleteOf(requests[k], "index.html")

\* C2: in delete-all, once the list call has succeeded, no failed delete call
\* stops the sweep: the process does not exit before every delete call of the
\* sweep has been issued, and it then exits with code 0, whichever of the
\* delete calls failed.
C2_DeleteFailuresSwallowed ==
    DeleteAllListed =>
        /\ pc = "exited" =>
              /\ exitCode = 0
              /\ Len(requests) = 1 + Len(SelectSeq(list, IsRemovableFile))
                                   + Len(SelectSeq(list, IsDirectory))
        /\ pc # "exited" => exitCode = -1
        /\ \A k \in 1..Len(stdout) : stdout[k][1] # "error:"

\* C2 witness: a sweep that exited with code 0 although a file delete failed
\* with an API error and a directory delete with a transport error, and a
\* further delete call followed both
C2_Witness ==
    /\ DeleteAllListed
    /\ pc = "exited"
    /\ exitCode = 0
    /\ Len(results) = 4
    /\ list = <<Directory("sub"), File("other.txt"), Directory("other.txt")>>
    /\ results[2] = "ApiErr"
    /\ results[3] = "ReqwestErr"

(***************************************************************************)
(* Properties of upload-all.                                               *)
(***************************************************************************)
IsUploadAll == cli.subcommand.cmd = "UploadAll"

IsRegularFile(item) == item.ok /\ ~item.is_dir

\* the relative path of a file, its components separated by forward slashes
ForwardSlashPath(item) == Join(item.rel, "/")

UploadsOf(items) ==
    [k \in 1..Len(items) |-> UploadRequest(api, ForwardSlashPath(items[k]))]

\* C3: when upload-all has walked a whole tree without any failure, it has
\* issued exactly one upload call per regular file of the tree and none for a
\* directory, and the remote path of each call is the file's relative path
\* with forward slashes between its components.
C3_UploadAllPaths ==
    (IsUploadAll /\ pc = "exited" /\ exitCode = 0) =>
        requests = UploadsOf(SelectSeq(walk, IsRegularFile))

ItemFails(item) == ~item.ok \/ (~item.is_dir /\ ~item.readable)

IsReadableFile(item) == item.ok /\ ~item.is_dir /\ item.readable

LastLineIsError ==
    /\ stdout # <<>>
    /\ stdout[Len(stdout)][1] = "error:"

\* C4: upload-all aborts on the first failure.  A walk error or an unreadable
\* file is the last item walked, and a failed upload call is the last call
\* issued; the process has then exited with code 1 and an `error:` line last.
\* Every call issued is an upload of a readable file walked so far, so none is
\* issued after the failure and none undoes an earlier upload.
C4_UploadAllAborts ==
    IsUploadAll =>
        /\ \A k \in 1..Len(walk) :
              ItemFails(walk[k]) =>
                  /\ k = Len(walk)
                  /\ pc = "exited" /\ exitCode = 1 /\ LastLineIsError
        /\ \A k \in 1..Len(results) :
              results[k] # "Ok" =>
                  /\ k = Len(results)
                  /\ pc = "exited" /\ exitCode = 1 /\ LastLineIsError
                  /\ IsReadableFile(walk[Len(walk)])
        /\ Len(requests) = Len(SelectSeq(walk, IsReadableFile))
        /\ \A k \in 1..Len(requests) : requests[k].endpoint = "upload"
        /\ exitCode = 1 => pc = "exited" /\ LastLineIsError

\* C4 witness: two files were uploaded, the upload of a third failed, and the
\* process exited with code 1
C4_Witness ==
    /\ IsUploadAll
    /\ pc = "exited"
    /\ exitCode = 1
    /\ Len(results) = 3
    /\ results[1] = "Ok" /\ results[2] = "Ok" /\ results[3] # "Ok"

(***************************************************************************)
(* Properties of the credential.                                           *)
(***************************************************************************)
HeaderOf(auth) ==
    IF auth.kind = "Login"
    THEN [scheme |-> "Basic", username |-> auth.username,
          password |-> auth.password, token |-> None]
    ELSE [scheme |-> "Bearer", username |-> None, password |-> None, token |-> auth.key]

\* C9: every request issued carries the Authorization header of the one
\* credential the client was constructed with: Basic with its username and
\* password for a login client, Bearer with its key for a key client; none
\* is issued before a client exists.
C9_RequestsCarryTheCredential ==
    \A k \in 1..Len(requests) :
        /\ api.auth.kind \in {"Login", "Key"}
        /\ requests[k].authorization = HeaderOf(api.auth)

\* C9 witness: a login client has issued three requests, the second of which
\* failed
C9_Witness ==
    /\ api.auth.kind = "Login"
    /\ Len(requests) = 3
    /\ results[2] # "Ok"
    /\ requests[3].authorization.scheme = "Basic"

\* C10: the command line decides the client: username and password together
\* give a login client, whether or not a key is given; otherwise a key gives a
\* key client, a lone username or password being ignored; otherwise no client
\* is constructed, no request is issued, and the process exits with code 1
\* and an error line.
C10_CredentialSelection ==
    /\ pc = "start" => api = NoClient /\ requests = <<>>
    /\ pc # "start" =>
          IF cli.username # None /\ cli.password # None
          THEN api.auth = [kind |-> "Login", username |-> cli.username,
                           password |-> cli.password, key |-> None]
          ELSE IF cli.key # None
          THEN api.auth = [kind |-> "Key", username |-> None, password |-> None,
                           key |-> cli.key]
          ELSE /\ api = NoClient
               /\ requests = <<>>
               /\ pc = "exited" /\ exitCode = 1
               /\ stdout = <<<<"error:", <<"No login specified!">>>>>>

\* C10 witness: key, username and password are all given, and a request has
\* gone out from a login client
C10_Witness ==
    /\ cli.key # None /\ cli.username # None /\ cli.password # None
    /\ api.auth.kind = "Login"
    /\ requests # <<>>

(***************************************************************************)
(* Properties of the envelope decoding, under SpecClient.                  *)
(***************************************************************************)
Answered == call.op # None /\ call.resp.sent /\ call.resp.body # Malformed

FieldOr(body, key, default) ==
    IF key \in DOMAIN body.fields THEN body.fields[key].s ELSE default

IsStringOrAbsent(body, key) ==
    key \in DOMAIN body.fields => body.fields[key].t = "string"

\* C5: whatever the operation, an answer with status 200 whose envelope has
\* result "error" gives ApiErr(error_type, message), an absent error_type or
\* message being the empty string.
C5_ErrorEnvelope ==
    (/\ Answered
     /\ call.resp.status = 200
     /\ call.resp.body.result = "error"
     /\ IsStringOrAbsent(call.resp.body, "error_type")
     /\ IsStringOrAbsent(call.resp.body, "message")) =>
        call.result = [kind |-> "ApiErr",
                       error_type |-> FieldOr(call.resp.body, "error_type", ""),
                       message |-> FieldOr(call.resp.body, "message", "")]

\* C5 witness: list answered with status 200 and an error envelope that has a
\* message and no error_type
C5_Witness ==
    /\ Answered
    /\ call.op = "list"
    /\ call.resp.status = 200
    /\ call.resp.body.result = "error"
    /\ DOMAIN call.resp.body.fields = {"message"}
    /\ call.result = [kind |-> "ApiErr", error_type |-> "", message |-> "Invalid login"]

\* C6: whatever the operation, an answer whose status is not 2xx gives a
\* transport error, whatever its body.
C6_FailureStatusIsTransportError ==
    (/\ call.op # None
     /\ call.resp.sent
     /\ call.resp.status \notin 200..299) =>
        call.result = [kind |-> "ReqwestErr"]

\* C7: whatever the operation and the status, a body whose result is absent,
\* or is neither "success" nor "error", gives a transport error, whatever else
\* the body carries.
C7_UnknownResultIsTransportError ==
    (Answered /\ call.resp.body.result \notin {"success", "error"}) =>
        call.result = [kind |-> "ReqwestErr"]

\* C7 witness: list answered with status 200 and a body without result that
\* carries a valid listing under `files`
C7_Witness ==
    /\ Answered
    /\ call.op = "list"
    /\ call.resp.status = 200
    /\ call.resp.body.result = None
    /\ DOMAIN call.resp.body.fields = {"files"}
    /\ DecodableAs("Vec<ListEntry>", call.resp.body.fields["files"])
    /\ call.result = [kind |-> "ReqwestErr"]

AliasNames == {"info", "files", "api_key", "message"}

=============================================================================
